---- MODULE Spec2Model ----
(***************************************************************************)
(* City configuration store of city_config.py: CityConfigManager, its      *)
(* YAML backing file, and the dataclasses it (de)serialises.               *)
(*                                                                         *)
(* A Python dict is an insertion-ordered mapping: it is modelled as a      *)
(* sequence of [key, value] records with distinct keys.  A YAML document   *)
(* is modelled at the level of its nodes (mapping entries in file order,   *)
(* sequence nodes with their tag), so that yaml.dump / yaml.safe_load are  *)
(* conversions between Python values and nodes, not the identity.          *)
(*                                                                         *)
(* CityBounds.get_grid_points is a pure function of a CityBounds object;   *)
(* it has a specification of its own (GridSpec) over the variables of the  *)
(* second group, which the store leaves alone.  TwinSpec runs a second     *)
(* store (third group) beside the first one, to compare two stores that    *)
(* were filled in different orders.  LoaderSpec is the dashboard's         *)
(* EnhancedDataLoader (enhanced_visualization_app.py), whose load_city_data *)
(* the callbacks of the threaded server run concurrently: each callback is *)
(* a thread with a position in load_city_data (fourth group).              *)
(***************************************************************************)
EXTENDS Integers, Sequences, FiniteSets, TLC

VARIABLES
    file,           \* content of config_file on disk
    constructed,    \* a CityConfigManager instance exists (its __init__ returned)
    configs,        \* self.configs: ordered dict city_id -> CityConfiguration
    current_city,   \* self.current_city: a string or None
    op,             \* name of the last call made on the store
    arg,            \* its city_id argument (None when it takes none)
    ret,            \* what that call returned, or that it raised
    seeded,         \* the last call ran _create_default_configs
    prior,          \* what the last add_city found stored under its config's id
    wrote,          \* the last call ran save_configs (it opened config_file to write)
    io_failures,    \* number of writes of config_file that have failed so far
    city_bounds,    \* a CityBounds object: its min/max fields and grid_spacing
    grid_points,    \* what the last get_grid_points() call on it returned
    grid_previous,  \* what the call before that returned
    grid_calls,     \* number of get_grid_points() calls made on it
    twin_configs,   \* self.configs of a second CityConfigManager
    twin_current,   \* its self.current_city
    twin_ret,       \* what the last call on it returned
    twin_op,        \* which store the last call was made on: "left", "right", "both"
    build_steps,    \* number of calls made on one of the two stores only
    joint_calls,    \* number of calls made on both stores
    current_data,   \* data_loader.current_data: a dataset or None
    current_city_id,\* data_loader.current_city_id: a city id or None
    pickles,        \* city id -> state of cache_<id>/processed_location_data.pkl
    threads,        \* callback -> its position in load_city_data, its city_id
                    \* argument, its local data, and what its last call returned
    invocations     \* number of load_city_data calls started so far

store_vars ==
    <<file, constructed, configs, current_city, op, arg, ret, seeded, prior, wrote,
      io_failures>>

grid_vars == <<city_bounds, grid_points, grid_previous, grid_calls>>

twin_vars == <<twin_configs, twin_current, twin_ret, twin_op, build_steps, joint_calls>>

loader_vars == <<current_data, current_city_id, pickles, threads, invocations>>

vars == <<store_vars, grid_vars, twin_vars, loader_vars>>

\* no dashboard is under study
NoLoader ==
    /\ current_data = <<>>
    /\ current_city_id = "None"
    /\ pickles = <<>>
    /\ threads = <<>>
    /\ invocations = 0

\* no second store is under study
NoTwin ==
    /\ twin_configs = <<>>
    /\ twin_current = "None"
    /\ twin_ret = "None"
    /\ twin_op = "none"
    /\ build_steps = 0
    /\ joint_calls = 0

\* no CityBounds object is under study
NoGrid ==
    /\ city_bounds = "None"
    /\ grid_points = <<>>
    /\ grid_previous = <<>>
    /\ grid_calls = 0

\* no CityConfigManager is under study
NoStore ==
    /\ file = [kind |-> "missing"]
    /\ constructed = FALSE
    /\ configs = <<>>
    /\ current_city = "None"
    /\ op = "none"
    /\ arg = "None"
    /\ ret = "None"
    /\ seeded = FALSE
    /\ prior = "None"
    /\ wrote = FALSE
    /\ io_failures = 0

-----------------------------------------------------------------------------
(* Bounds of the model *)

\* the dashboard's callbacks start at most this many load_city_data calls
MaxInvocations == 3
\* TwinSpec makes at most this many calls on one of its two stores only
MaxBuildSteps == 3
\* and then at most this many calls on both
MaxJointCalls == 2
\* at most this many writes of the backing file fail in one behaviour
MaxWriteFailures == 1
\* a backing file found at start-up holds at most this many cities
MaxFileCities == 2
\* significand width of the binary floating-point numbers of GridSpec (a
\* Python float has 53 bits; the rounding rules are the same)
MantissaBits == 13
\* get_grid_points() is called at most this many times on one CityBounds
MaxGridCalls == 2

-----------------------------------------------------------------------------
(* Values *)

\* Python's None; no city id of the model is this string
None == "None"

\* the city ids of the model: the three seeded ones and the empty string,
\* listed in Python's str order (the order yaml.dump sorts mapping keys in)
SortedIds == <<"", "bismarck_nd", "fargo_nd", "grand_forks_nd">>

CityIds == {SortedIds[i] : i \in 1..Len(SortedIds)}

\* typing.Tuple fields are tuples when built by the code, lists when read
\* back from YAML
PyTuple(a, b) == [pytype |-> "tuple", items |-> <<a, b>>]

PyList(a, b) == [pytype |-> "list", items |-> <<a, b>>]

\* CityDemographics, by its first range field
CityDemographics(range) == [typical_population_range |-> range]

\* CityConfiguration: the identifier, one scalar field and the demographics;
\* bounds, market_data and competitor_data travel exactly as display_name
\* does (floats, strings and lists of strings)
CityConfiguration(id, name, demo) ==
    [city_id |-> id, display_name |-> name, demographics |-> demo]

grand_forks ==
    CityConfiguration("grand_forks_nd", "Grand Forks, ND",
                      CityDemographics(PyTuple(3000, 12000)))

fargo ==
    CityConfiguration("fargo_nd", "Fargo, ND",
                      CityDemographics(PyTuple(5000, 18000)))

bismarck ==
    CityConfiguration("bismarck_nd", "Bismarck, ND",
                      CityDemographics(PyTuple(4000, 15000)))

\* stands for "no configuration" where a record is needed
NoConfig == CityConfiguration(None, None, CityDemographics(PyList(0, 0)))

-----------------------------------------------------------------------------
(* dict *)

DictKeys(d) == {d[i].key : i \in 1..Len(d)}

\* list(d.keys())[1:]: the first key is left out
KeyList_SkipsFirst(d) == [i \in 1..(IF Len(d) > 0 THEN Len(d) - 1 ELSE 0) |-> d[i + 1].key]

\* list(d.keys()): the keys in insertion order
KeyList(d) == [i \in 1..Len(d) |-> d[i].key]

\* d[k] for a key of d
DictGet(d, k) == d[CHOOSE i \in 1..Len(d) : d[i].key = k].value

\* d[k] = v: a new key goes last, a known key keeps its place
DictSet(d, k, v) ==
    IF k \in DictKeys(d)
    THEN [i \in 1..Len(d) |-> IF d[i].key = k THEN [key |-> k, value |-> v] ELSE d[i]]
    ELSE Append(d, [key |-> k, value |-> v])

\* del d[k]
DictDel(d, k) == SelectSeq(d, LAMBDA e : e.key # k)

\* next(iter(d.keys()), None)
FirstKey(d) == IF Len(d) = 0 THEN None ELSE d[1].key

\* Python truthiness of an Optional[str]: None and "" are false
Truthy(s) == s # None /\ s # ""

-----------------------------------------------------------------------------
(* CityConfiguration <-> dict, and dict <-> YAML *)

TupleTag == "tag:yaml.org,2002:python/tuple"

SeqTag == "tag:yaml.org,2002:seq"

\* dataclasses.asdict: a dict per dataclass, field by field; a tuple stays a
\* tuple and a list stays a list
to_dict(c) ==
    [city_id |-> c.city_id,
     display_name |-> c.display_name,
     demographics |->
        [typical_population_range |->
            [pytype |-> c.demographics.typical_population_range.pytype,
             items |-> c.demographics.typical_population_range.items]]]

\* yaml.dump's Representer on a sequence: a list is a plain sequence node, a
\* tuple is a sequence node tagged !!python/tuple
RepresentSeq(v) ==
    [tag |-> IF v.pytype = "tuple" THEN TupleTag ELSE SeqTag, items |-> v.items]

\* the node yaml.dump writes for one city's dict
RepresentCity(d) ==
    [city_id |-> d.city_id,
     display_name |-> d.display_name,
     demographics |->
        [typical_population_range |->
            RepresentSeq(d.demographics.typical_population_range)]]

\* the entries of d in the order of its keys (yaml.dump sorts mapping keys)
SortByKey(d) ==
    LET present == SelectSeq(SortedIds, LAMBDA k : k \in DictKeys(d))
    IN [i \in 1..Len(present) |-> [key |-> present[i], value |-> DictGet(d, present[i])]]

\* save_configs with 'current_city' left out of the data it dumps
yaml_dump_WithoutCurrent(cfgs, cur) ==
    LET sorted == SortByKey(cfgs)
    IN [kind |-> "yaml",
        doc |-> [cities |-> [i \in 1..Len(sorted) |->
                                [key |-> sorted[i].key,
                                 value |-> RepresentCity(to_dict(sorted[i].value))]],
                 current_city |-> None]]

\* the document save_configs writes: {'current_city': ..., 'cities': {...}}
yaml_dump(cfgs, cur) ==
    LET sorted == SortByKey(cfgs)
    IN [kind |-> "yaml",
        doc |-> [cities |-> [i \in 1..Len(sorted) |->
                                [key |-> sorted[i].key,
                                 value |-> RepresentCity(to_dict(sorted[i].value))]],
                 current_city |-> cur]]

\* a city node that carries every field from_dict reads
HasAllFields(node) == {"city_id", "display_name", "demographics"} \subseteq DOMAIN node

\* the document holds a node only the unsafe loader can construct
HasPythonTag(doc) ==
    /\ "cities" \in DOMAIN doc
    /\ \E i \in 1..Len(doc.cities) :
          /\ "demographics" \in DOMAIN doc.cities[i].value
          /\ doc.cities[i].value.demographics.typical_population_range.tag = TupleTag

\* SafeConstructor on a sequence node: a list
ConstructSeq(node) == [pytype |-> "list", items |-> node.items]

\* CityConfiguration.from_dict on the dict safe_load built from a node that
\* has all fields
from_dict(node) ==
    CityConfiguration(node.city_id, node.display_name,
        CityDemographics(ConstructSeq(node.demographics.typical_population_range)))

\* open or yaml.safe_load raises: the file cannot be read or is not YAML
\* ("garbage"), or a tag has no safe constructor
SafeLoadRaises(f) ==
    \/ f.kind = "garbage"
    \/ f.kind = "yaml" /\ HasPythonTag(f.doc)

-----------------------------------------------------------------------------
(* Results of a call *)

Returned(tag) == [tag |-> tag, value |-> NoConfig]

RetNone == Returned("None")

RetTrue == Returned("True")

RetFalse == Returned("False")

\* the call did not return: an exception left it
Raised == Returned("raise")

\* the call returned a CityConfiguration
RetConfig(c) == [tag |-> "config", value |-> c]

-----------------------------------------------------------------------------
(* save_configs *)

\* what open(config_file, 'w') and yaml.dump can do: succeed, or fail with an
\* OSError before the file is touched (open raises), or fail after open has
\* truncated it (the write raises, leaving nothing or an unparsable prefix).
\* A call that writes nothing is taken with the outcome "ok".
WriteOutcomes ==
    {"ok"} \cup
    (IF io_failures < MaxWriteFailures
     THEN {"open_raises", "write_raises_empty", "write_raises_partial"}
     ELSE {})

\* save_configs with the write wrapped in a try that swallows the OSError
SaveRaises_Swallowed(w) == FALSE

\* save_configs has no try: the OSError of a failed write leaves it, and
\* leaves every caller of it
SaveRaises(w) == w # "ok"

\* the backing file after save_configs ran with outcome w on (cfgs, cur)
SaveFile(w, cfgs, cur) ==
    CASE w = "ok" -> yaml_dump(cfgs, cur)
      [] w = "open_raises" -> file
      [] w = "write_raises_empty" -> [kind |-> "empty"]
      [] w = "write_raises_partial" -> [kind |-> "garbage"]

-----------------------------------------------------------------------------
(* load_configs *)

\* the three built-in configurations, in the order the dict literal lists them
DefaultConfigs ==
    <<[key |-> "grand_forks_nd", value |-> grand_forks],
      [key |-> "fargo_nd", value |-> fargo],
      [key |-> "bismarck_nd", value |-> bismarck]>>

DefaultCurrent == "grand_forks_nd"

\* the for loop over data['cities'].items(): each city is stored as it is
\* read; the first node from_dict cannot read raises and ends the loop
RECURSIVE LoadItems(_, _)
LoadItems(cfgs, items) ==
    IF items = <<>>
    THEN [raised |-> FALSE, configs |-> cfgs]
    ELSE IF ~HasAllFields(Head(items).value)
         THEN [raised |-> TRUE, configs |-> cfgs]
         ELSE LoadItems(DictSet(cfgs, Head(items).key, from_dict(Head(items).value)),
                        Tail(items))

\* data.get('current_city')
GetCurrentCityField(doc) ==
    IF "current_city" \in DOMAIN doc THEN doc.current_city ELSE None

\* the try block of load_configs on an existing file f, from the store (cfgs, cur)
TryLoad(cfgs, cur, f) ==
    IF SafeLoadRaises(f) \/ f.kind = "empty" \/ "cities" \notin DOMAIN f.doc
    THEN [raised |-> TRUE, configs |-> cfgs, current_city |-> cur]
    ELSE LET r == LoadItems(cfgs, f.doc.cities)
         IN IF r.raised
            THEN [raised |-> TRUE, configs |-> r.configs, current_city |-> cur]
            ELSE [raised |-> FALSE, configs |-> r.configs,
                  current_city |-> GetCurrentCityField(f.doc)]

\* load_configs with no except clause after the try: only a missing file
\* leads to _create_default_configs
NeedsDefaults_OnlyMissing(cfgs, cur, f) ==
    f.kind = "missing"

\* load_configs takes the path that ends in _create_default_configs
NeedsDefaults(cfgs, cur, f) ==
    f.kind = "missing" \/ TryLoad(cfgs, cur, f).raised

\* load_configs on the store (cfgs, cur) with the backing file f; w is the
\* outcome of the write _create_default_configs makes, when it makes one
LoadOutcome(cfgs, cur, f, w) ==
    IF NeedsDefaults(cfgs, cur, f)
    THEN [configs |-> DefaultConfigs, current_city |-> DefaultCurrent,
          file |-> SaveFile(w, DefaultConfigs, DefaultCurrent),
          seeded |-> TRUE, raised |-> SaveRaises(w)]
    ELSE [configs |-> TryLoad(cfgs, cur, f).configs,
          current_city |-> TryLoad(cfgs, cur, f).current_city,
          file |-> f, seeded |-> FALSE, raised |-> FALSE]

-----------------------------------------------------------------------------
(* Inputs *)

\* configurations a caller hands to add_city: one that replaces a seeded city
\* and one for the id "", their ranges given as lists, and a second one for
\* "" built with tuples, as the dataclass annotates them
CustomConfigs ==
    {CityConfiguration(id, "Custom", CityDemographics(PyList(1000, 2000))) :
        id \in {"", "fargo_nd"}}
    \cup {CityConfiguration("", "Custom 2", CityDemographics(PyTuple(1000, 2000)))}

\* configurations an edited backing file holds under the key id although
\* their city_id is another
Misfiled(id) ==
    IF id = "bismarck_nd" THEN {x \in CustomConfigs : x.city_id = "fargo_nd"} ELSE {}

\* city nodes a backing file found at start-up may hold under key id: what
\* yaml.dump wrote for a configuration, or a record cut after its first field
FileNodes(id) ==
    {RepresentCity(to_dict(c)) : c \in {x \in CustomConfigs : x.city_id = id} \cup Misfiled(id)}
    \cup {[city_id |-> id]}

FileEntries ==
    UNION {{[key |-> id, value |-> n] : n \in FileNodes(id)} : id \in CityIds}

\* the 'cities' mappings of such a file: entries in file order, keys distinct
FileCities ==
    {s \in UNION {[1..n -> FileEntries] : n \in 0..MaxFileCities} :
        \A i, j \in 1..Len(s) : i # j => s[i].key # s[j].key}

\* every content the backing file may have when the program starts
InitFiles ==
    {[kind |-> "missing"], [kind |-> "garbage"], [kind |-> "empty"],
     [kind |-> "yaml", doc |-> [current_city |-> DefaultCurrent]]}
    \cup {[kind |-> "yaml", doc |-> [cities |-> s, current_city |-> c]] :
            s \in FileCities, c \in CityIds \cup {None}}

-----------------------------------------------------------------------------
(* Operations *)

Init ==
    /\ file \in InitFiles
    /\ constructed = FALSE
    /\ configs = <<>>
    /\ current_city = None
    /\ op = "none"
    /\ arg = None
    /\ ret = RetNone
    /\ seeded = FALSE
    /\ prior = RetNone
    /\ wrote = FALSE
    /\ io_failures = 0
    /\ NoGrid
    /\ NoTwin
    /\ NoLoader

\* save_configs with outcome w, as the last step of a call
Persist(w, cfgs, cur) ==
    /\ file' = SaveFile(w, cfgs, cur)
    /\ wrote' = TRUE
    /\ io_failures' = IF w = "ok" THEN io_failures ELSE io_failures + 1

\* what a call that ends in save_configs gives its caller
AfterSave(w, result) == IF SaveRaises(w) THEN Raised ELSE result

\* CityConfigManager(config_file): an empty store, then load_configs.  When
\* __init__ raises the caller gets no instance and keeps the one it had.
New(w) ==
    LET r == LoadOutcome(<<>>, None, file, w)
    IN /\ r.seeded \/ w = "ok"
       /\ file' = r.file
       /\ wrote' = r.seeded
       /\ io_failures' = IF r.raised THEN io_failures + 1 ELSE io_failures
       /\ IF r.raised
          THEN UNCHANGED <<constructed, configs, current_city>>
          ELSE /\ constructed' = TRUE
               /\ configs' = r.configs
               /\ current_city' = r.current_city
       /\ op' = "__init__"
       /\ arg' = None
       /\ ret' = IF r.raised THEN Raised ELSE RetNone
       /\ seeded' = r.seeded
       /\ prior' = RetNone

\* load_configs() called again on the live instance
load_configs(w) ==
    LET r == LoadOutcome(configs, current_city, file, w)
    IN /\ constructed
       /\ r.seeded \/ w = "ok"
       /\ file' = r.file
       /\ wrote' = r.seeded
       /\ io_failures' = IF r.raised THEN io_failures + 1 ELSE io_failures
       /\ configs' = r.configs
       /\ current_city' = r.current_city
       /\ op' = "load_configs"
       /\ arg' = None
       /\ ret' = IF r.raised THEN Raised ELSE RetNone
       /\ seeded' = r.seeded
       /\ prior' = RetNone
       /\ UNCHANGED constructed

save_configs(w) ==
    /\ constructed
    /\ Persist(w, configs, current_city)
    /\ op' = "save_configs"
    /\ arg' = None
    /\ ret' = AfterSave(w, RetNone)
    /\ seeded' = FALSE
    /\ prior' = RetNone
    /\ UNCHANGED <<constructed, configs, current_city>>

\* set_current_city without its membership test
CanSetCurrent_Unchecked(cfgs, city_id) == TRUE

\* the test set_current_city makes before it changes anything
CanSetCurrent(cfgs, city_id) == city_id \in DictKeys(cfgs)

set_current_city(city_id, w) ==
    /\ constructed
    /\ CanSetCurrent(configs, city_id) \/ w = "ok"
    /\ op' = "set_current_city"
    /\ arg' = city_id
    /\ seeded' = FALSE
    /\ prior' = RetNone
    /\ IF CanSetCurrent(configs, city_id)
       THEN /\ current_city' = city_id
            /\ Persist(w, configs, city_id)
            /\ ret' = AfterSave(w, RetTrue)
            /\ UNCHANGED <<constructed, configs>>
       ELSE /\ ret' = RetFalse
            /\ wrote' = FALSE
            /\ UNCHANGED <<file, io_failures, constructed, configs, current_city>>

\* the value get_current_config returns
CurrentConfig(cfgs, cur) ==
    IF Truthy(cur) /\ cur \in DictKeys(cfgs)
    THEN RetConfig(DictGet(cfgs, cur))
    ELSE RetNone

get_current_config ==
    /\ constructed
    /\ op' = "get_current_config"
    /\ arg' = None
    /\ ret' = CurrentConfig(configs, current_city)
    /\ seeded' = FALSE
    /\ prior' = RetNone
    /\ wrote' = FALSE
    /\ UNCHANGED <<file, io_failures, constructed, configs, current_city>>

\* the call returned a list of city ids
RetList(keys) == [tag |-> "list", value |-> keys]

\* self.configs[city_id] in place of .get: an unknown id raises KeyError
ConfigOrNone_Subscript(cfgs, city_id) ==
    IF city_id \in DictKeys(cfgs) THEN RetConfig(DictGet(cfgs, city_id)) ELSE Raised

\* self.configs.get(city_id)
ConfigOrNone(cfgs, city_id) ==
    IF city_id \in DictKeys(cfgs) THEN RetConfig(DictGet(cfgs, city_id)) ELSE RetNone

get_config(city_id) ==
    /\ constructed
    /\ op' = "get_config"
    /\ arg' = city_id
    /\ ret' = ConfigOrNone(configs, city_id)
    /\ seeded' = FALSE
    /\ prior' = RetNone
    /\ wrote' = FALSE
    /\ UNCHANGED <<file, io_failures, constructed, configs, current_city>>

list_cities ==
    /\ constructed
    /\ op' = "list_cities"
    /\ arg' = None
    /\ ret' = RetList(KeyList(configs))
    /\ seeded' = FALSE
    /\ prior' = RetNone
    /\ wrote' = FALSE
    /\ UNCHANGED <<file, io_failures, constructed, configs, current_city>>

\* add_city as dict.setdefault: an id already stored keeps its old entry
AddedConfigs_KeepsFirst(cfgs, config) ==
    IF config.city_id \in DictKeys(cfgs)
    THEN cfgs
    ELSE Append(cfgs, [key |-> config.city_id, value |-> config])

\* self.configs after add_city(config)
AddedConfigs(cfgs, config) == DictSet(cfgs, config.city_id, config)

add_city(config, w) ==
    /\ constructed
    /\ configs' = AddedConfigs(configs, config)
    /\ Persist(w, configs', current_city)
    /\ op' = "add_city"
    /\ arg' = config.city_id
    /\ ret' = AfterSave(w, RetNone)
    /\ seeded' = FALSE
    /\ prior' = IF config.city_id \in DictKeys(configs)
                THEN RetConfig(DictGet(configs, config.city_id))
                ELSE RetNone
    /\ UNCHANGED <<constructed, current_city>>

\* remove_city without the reassignment: current_city stays as it was
CurrentAfterRemove_Keeps(cfgs, cur, city_id) == cur

\* remove_city without its test of self.current_city == city_id: every
\* removal moves current_city to the first remaining key
CurrentAfterRemove_Always(cfgs, cur, city_id) == FirstKey(cfgs)

\* self.current_city after remove_city deleted city_id, leaving cfgs
CurrentAfterRemove(cfgs, cur, city_id) ==
    IF cur = city_id THEN FirstKey(cfgs) ELSE cur

\* remove_city without its membership test, the del made tolerant of a
\* missing key
CanRemove_Unchecked(cfgs, city_id) == TRUE

\* the test remove_city makes before it changes anything
CanRemove(cfgs, city_id) == city_id \in DictKeys(cfgs)

remove_city(city_id, w) ==
    /\ constructed
    /\ CanRemove(configs, city_id) \/ w = "ok"
    /\ op' = "remove_city"
    /\ arg' = city_id
    /\ seeded' = FALSE
    /\ prior' = RetNone
    /\ IF CanRemove(configs, city_id)
       THEN /\ configs' = DictDel(configs, city_id)
            /\ current_city' = CurrentAfterRemove(configs', current_city, city_id)
            /\ Persist(w, configs', current_city')
            /\ ret' = AfterSave(w, RetTrue)
            /\ UNCHANGED constructed
       ELSE /\ ret' = RetFalse
            /\ wrote' = FALSE
            /\ UNCHANGED <<file, io_failures, constructed, configs, current_city>>

Next ==
    \/ (\E w \in WriteOutcomes : New(w)) /\ UNCHANGED <<grid_vars, twin_vars, loader_vars>>
    \/ (\E w \in WriteOutcomes : load_configs(w)) /\ UNCHANGED <<grid_vars, twin_vars, loader_vars>>
    \/ (\E w \in WriteOutcomes : save_configs(w)) /\ UNCHANGED <<grid_vars, twin_vars, loader_vars>>
    \/ (\E id \in CityIds, w \in WriteOutcomes : set_current_city(id, w))
            /\ UNCHANGED <<grid_vars, twin_vars, loader_vars>>
    \/ get_current_config /\ UNCHANGED <<grid_vars, twin_vars, loader_vars>>
    \/ (\E id \in CityIds : get_config(id)) /\ UNCHANGED <<grid_vars, twin_vars, loader_vars>>
    \/ list_cities /\ UNCHANGED <<grid_vars, twin_vars, loader_vars>>
    \/ (\E c \in CustomConfigs, w \in WriteOutcomes : add_city(c, w))
            /\ UNCHANGED <<grid_vars, twin_vars, loader_vars>>
    \/ (\E id \in CityIds, w \in WriteOutcomes : remove_city(id, w))
            /\ UNCHANGED <<grid_vars, twin_vars, loader_vars>>

Spec == Init /\ [][Next]_vars

-----------------------------------------------------------------------------
(* Two stores side by side *)

\* what the call name(a) makes of a store (cfgs, cur) whose writes succeed,
\* and what it returns
Call(cfgs, cur, name, a) ==
    CASE name = "set_current_city" ->
            IF CanSetCurrent(cfgs, a)
            THEN [configs |-> cfgs, current_city |-> a, ret |-> RetTrue]
            ELSE [configs |-> cfgs, current_city |-> cur, ret |-> RetFalse]
      [] name = "add_city" ->
            [configs |-> AddedConfigs(cfgs, a), current_city |-> cur, ret |-> RetNone]
      [] name = "remove_city" ->
            IF CanRemove(cfgs, a)
            THEN [configs |-> DictDel(cfgs, a),
                  current_city |-> CurrentAfterRemove(DictDel(cfgs, a), cur, a),
                  ret |-> RetTrue]
            ELSE [configs |-> cfgs, current_city |-> cur, ret |-> RetFalse]
      [] name = "get_config" ->
            [configs |-> cfgs, current_city |-> cur, ret |-> ConfigOrNone(cfgs, a)]
      [] name = "list_cities" ->
            [configs |-> cfgs, current_city |-> cur, ret |-> RetList(KeyList(cfgs))]
      [] name = "get_current_config" ->
            [configs |-> cfgs, current_city |-> cur, ret |-> CurrentConfig(cfgs, cur)]

\* the call name(a) on the second store
Twin(name, a) ==
    LET r == Call(twin_configs, twin_current, name, a)
    IN /\ twin_configs' = r.configs
       /\ twin_current' = r.current_city
       /\ twin_ret' = r.ret

\* both stores are constructed over their own missing backing file
TwinInit ==
    LET r == LoadOutcome(<<>>, None, [kind |-> "missing"], "ok")
    IN /\ file = r.file
       /\ constructed = TRUE
       /\ configs = r.configs
       /\ current_city = r.current_city
       /\ op = "__init__"
       /\ arg = None
       /\ ret = RetNone
       /\ seeded = TRUE
       /\ prior = RetNone
       /\ wrote = TRUE
       /\ io_failures = 0
       /\ twin_configs = r.configs
       /\ twin_current = r.current_city
       /\ twin_ret = RetNone
       /\ twin_op = "both"
       /\ build_steps = 0
       /\ joint_calls = 0
       /\ NoGrid
       /\ NoLoader

\* the cities the two stores are filled with, and emptied of, one by one
BuildConfigs == {c \in CustomConfigs : c.display_name = "Custom"}

BuildIds == {c.city_id : c \in BuildConfigs}

\* a call on the first store only, before any call on both
Left(call) ==
    /\ joint_calls = 0
    /\ build_steps < MaxBuildSteps
    /\ build_steps' = build_steps + 1
    /\ call
    /\ twin_op' = "left"
    /\ UNCHANGED <<twin_configs, twin_current, twin_ret, joint_calls>>

\* a call on the second store only, before any call on both
Right(name, a) ==
    /\ joint_calls = 0
    /\ build_steps < MaxBuildSteps
    /\ build_steps' = build_steps + 1
    /\ Twin(name, a)
    /\ twin_op' = "right"
    /\ UNCHANGED <<store_vars, joint_calls>>

\* the same call on both stores
Both(call, name, a) ==
    /\ joint_calls < MaxJointCalls
    /\ joint_calls' = joint_calls + 1
    /\ call
    /\ Twin(name, a)
    /\ twin_op' = "both"
    /\ UNCHANGED build_steps

TwinNext ==
    \/ (\E c \in BuildConfigs : Left(add_city(c, "ok"))) /\ UNCHANGED <<grid_vars, loader_vars>>
    \/ (\E id \in BuildIds : Left(remove_city(id, "ok"))) /\ UNCHANGED <<grid_vars, loader_vars>>
    \/ (\E c \in BuildConfigs : Right("add_city", c)) /\ UNCHANGED <<grid_vars, loader_vars>>
    \/ (\E id \in BuildIds : Right("remove_city", id)) /\ UNCHANGED <<grid_vars, loader_vars>>
    \/ (\E id \in CityIds : Both(set_current_city(id, "ok"), "set_current_city", id))
            /\ UNCHANGED <<grid_vars, loader_vars>>
    \/ (\E c \in CustomConfigs : Both(add_city(c, "ok"), "add_city", c))
            /\ UNCHANGED <<grid_vars, loader_vars>>
    \/ (\E id \in CityIds : Both(remove_city(id, "ok"), "remove_city", id))
            /\ UNCHANGED <<grid_vars, loader_vars>>
    \/ (\E id \in CityIds : Both(get_config(id), "get_config", id))
            /\ UNCHANGED <<grid_vars, loader_vars>>
    \/ Both(list_cities, "list_cities", None) /\ UNCHANGED <<grid_vars, loader_vars>>
    \/ Both(get_current_config, "get_current_config", None) /\ UNCHANGED <<grid_vars, loader_vars>>

TwinSpec == TwinInit /\ [][TwinNext]_vars

-----------------------------------------------------------------------------
(* Floating point *)

\* A float is held as the integer k that stands for k / Scale; it is a float
\* of the format when k has at most MantissaBits significant bits.
Scale == 2 ^ (MantissaBits + 7)

Abs(n) == IF n < 0 THEN -n ELSE n

\* n / d = (r.n / r.d) * 2^r.e with 2^(MantissaBits-1) <= r.n / r.d < 2^MantissaBits
RECURSIVE Normalize(_, _, _)
Normalize(n, d, e) ==
    IF n \div 2 ^ MantissaBits >= d THEN Normalize(n, 2 * d, e + 1)
    ELSE IF n \div 2 ^ (MantissaBits - 1) < d
         THEN IF d % 2 = 0 THEN Normalize(n, d \div 2, e - 1)
                           ELSE Normalize(2 * n, d, e - 1)
    ELSE [n |-> n, d |-> d, e |-> e]

\* the float nearest to the rational n / d (d > 0), ties to the even
\* significand: IEEE 754 round-to-nearest-even
Round(n, d) ==
    IF n = 0 THEN 0
    ELSE LET r == Normalize(Abs(n), d, 0)
             q == r.n \div r.d
             rem == r.n % r.d
             m == IF 2 * rem > r.d \/ (2 * rem = r.d /\ q % 2 = 1) THEN q + 1 ELSE q
             e == r.e + MantissaBits + 7
             k == IF e >= 0 THEN m * 2 ^ e ELSE m \div 2 ^ (-e)
         IN IF n < 0 THEN -k ELSE k

\* the float a decimal literal n/d denotes
Float(n, d) == Round(n, d)

FAdd(a, b) == Round(a + b, Scale)

FSub(a, b) == Round(a - b, Scale)

\* the product of the integer i and the float a
FMul(i, a) == Round(i * a, Scale)

FDiv(a, b) == IF b > 0 THEN Round(a, b) ELSE Round(-a, -b)

\* math.ceil of a float, an integer
Ceil(a) == -((-a) \div Scale)

-----------------------------------------------------------------------------
(* CityBounds.get_grid_points *)

\* numpy.arange(start, stop, step) on floats: the length is
\* ceil((stop - start) / step); the first two elements are start and
\* start + step; every later element i is start + i * delta, where delta is
\* the difference of the first two
arange(start, stop, step) ==
    LET len == Ceil(FDiv(FSub(stop, start), step))
        next == FAdd(start, step)
        delta == FSub(next, start)
    IN [i \in 1..(IF len > 0 THEN len ELSE 0) |->
            IF i = 1 THEN start
            ELSE IF i = 2 THEN next
            ELSE FAdd(start, FMul(i - 1, delta))]

\* [(lat, lon) for lat in lats for lon in lons]
Pairs(lats, lons) ==
    [n \in 1..(Len(lats) * Len(lons)) |->
        <<lats[((n - 1) \div Len(lons)) + 1], lons[((n - 1) % Len(lons)) + 1]>>]

GridPoints(b) ==
    Pairs(arange(b.min_lat, b.max_lat, b.grid_spacing),
          arange(b.min_lon, b.max_lon, b.grid_spacing))

\* (min, max) of an axis, min < max
AxisRanges ==
    {<<Float(0, 1), Float(2, 100)>>, <<Float(0, 1), Float(3, 10)>>,
     <<Float(1, 10), Float(4, 10)>>, <<Float(10, 10), Float(13, 10)>>,
     <<Float(-3, 10), Float(0, 1)>>}

GridSpacings == {Float(1, 100), Float(1, 10)}

CityBounds(lat, lon, spacing) ==
    [min_lat |-> lat[1], max_lat |-> lat[2], min_lon |-> lon[1], max_lon |-> lon[2],
     grid_spacing |-> spacing]

GridInit ==
    /\ city_bounds \in
          {CityBounds(lat, lon, s) : lat \in AxisRanges, lon \in AxisRanges,
                                     s \in GridSpacings}
    /\ grid_points = <<>>
    /\ grid_previous = <<>>
    /\ grid_calls = 0
    /\ NoStore
    /\ NoTwin
    /\ NoLoader

get_grid_points ==
    /\ grid_calls < MaxGridCalls
    /\ grid_points' = GridPoints(city_bounds)
    /\ grid_previous' = grid_points
    /\ grid_calls' = grid_calls + 1
    /\ UNCHANGED city_bounds

GridNext == get_grid_points /\ UNCHANGED <<store_vars, twin_vars, loader_vars>>

GridSpec == GridInit /\ [][GridNext]_vars

-----------------------------------------------------------------------------
(* EnhancedDataLoader.load_city_data under concurrent callbacks *)

\* the callbacks that call data_loader.load_city_data, one request thread each
Callbacks == {"update_city_data", "update_tab_content", "update_location_stats"}

\* the cities of the dropdown
LoaderCities == {"grand_forks_nd", "fargo_nd"}

\* what pickle.load returns for the processed data file of city c: the
\* locations of c
Dataset(c) == <<c>>

\* None where a dataset is expected
NoData == <<>>

\* a callback that is not inside load_city_data and has made no call yet
IdleThread ==
    [pc |-> "idle", city_id |-> None, data |-> NoData, calls |-> 0, returned |-> NoData]

\* the module has created data_loader and loaded the initial city
LoaderInit ==
    /\ pickles \in [LoaderCities -> {"ok", "missing", "corrupt"}]
    /\ \E c \in LoaderCities :
          /\ pickles[c] = "ok"
          /\ current_data = Dataset(c)
          /\ current_city_id = c
    /\ threads = [t \in Callbacks |-> IdleThread]
    /\ invocations = 0
    /\ NoStore
    /\ NoGrid
    /\ NoTwin

\* thread t moves to position pc
Goto(t, pc) == threads' = [threads EXCEPT ![t].pc = pc]

\* thread t leaves load_city_data with value v
Return(t, v) ==
    threads' = [threads EXCEPT ![t].pc = "idle", ![t].returned = v]

\* the server runs callback t, which calls load_city_data(c)
Invoke(t, c) ==
    /\ threads[t].pc = "idle"
    /\ invocations < MaxInvocations
    /\ invocations' = invocations + 1
    /\ threads' = [threads EXCEPT ![t] = [pc |-> "check_id", city_id |-> c,
                                          data |-> NoData, calls |-> @.calls + 1,
                                          returned |-> NoData]]
    /\ UNCHANGED <<current_data, current_city_id, pickles>>

\* if city_id == self.current_city_id ...
CheckId(t) ==
    /\ threads[t].pc = "check_id"
    /\ Goto(t, IF threads[t].city_id = current_city_id THEN "check_data" ELSE "exists")
    /\ UNCHANGED <<current_data, current_city_id, pickles, invocations>>

\* ... and self.current_data:
CheckData(t) ==
    /\ threads[t].pc = "check_data"
    /\ Goto(t, IF current_data # NoData THEN "return_cached" ELSE "exists")
    /\ UNCHANGED <<current_data, current_city_id, pickles, invocations>>

\* return self.current_data
ReturnCached(t) ==
    /\ threads[t].pc = "return_cached"
    /\ Return(t, current_data)
    /\ UNCHANGED <<current_data, current_city_id, pickles, invocations>>

\* if not os.path.exists(processed_data_file): return None
Exists(t) ==
    /\ threads[t].pc = "exists"
    /\ IF pickles[threads[t].city_id] = "missing" THEN Return(t, NoData) ELSE Goto(t, "load")
    /\ UNCHANGED <<current_data, current_city_id, pickles, invocations>>

\* data = pickle.load(f), or the except clause: return None
Load(t) ==
    /\ threads[t].pc = "load"
    /\ IF pickles[threads[t].city_id] = "corrupt"
       THEN Return(t, NoData)
       ELSE threads' = [threads EXCEPT ![t].pc = "set_data",
                                       ![t].data = Dataset(threads[t].city_id)]
    /\ UNCHANGED <<current_data, current_city_id, pickles, invocations>>

\* self.current_data = data
SetData(t) ==
    /\ threads[t].pc = "set_data"
    /\ current_data' = threads[t].data
    /\ Goto(t, "set_id")
    /\ UNCHANGED <<current_city_id, pickles, invocations>>

\* self.current_city_id = city_id; return data
SetId(t) ==
    /\ threads[t].pc = "set_id"
    /\ current_city_id' = threads[t].city_id
    /\ Return(t, threads[t].data)
    /\ UNCHANGED <<current_data, pickles, invocations>>

NotLoader == UNCHANGED <<store_vars, grid_vars, twin_vars>>

LoaderNext ==
    \/ (\E t \in Callbacks, c \in LoaderCities : Invoke(t, c)) /\ NotLoader
    \/ (\E t \in Callbacks : CheckId(t)) /\ NotLoader
    \/ (\E t \in Callbacks : CheckData(t)) /\ NotLoader
    \/ (\E t \in Callbacks : ReturnCached(t)) /\ NotLoader
    \/ (\E t \in Callbacks : Exists(t)) /\ NotLoader
    \/ (\E t \in Callbacks : Load(t)) /\ NotLoader
    \/ (\E t \in Callbacks : SetData(t)) /\ NotLoader
    \/ (\E t \in Callbacks : SetId(t)) /\ NotLoader

LoaderSpec == LoaderInit /\ [][LoaderNext]_vars

-----------------------------------------------------------------------------
(* Vocabulary of the properties *)

\* the mapping, as list_cities() and get_config() show it: order aside
SameMapping(a, b) ==
    /\ DictKeys(a) = DictKeys(b)
    /\ \A k \in DictKeys(a) : DictGet(a, k) = DictGet(b, k)

\* the Python value a sequence node stands for
NodeValue(node) ==
    [pytype |-> IF node.tag = TupleTag THEN "tuple" ELSE "list", items |-> node.items]

\* the file f is a YAML document that stands for exactly the store (cfgs, cur)
Denotes(f, cfgs, cur) ==
    /\ f.kind = "yaml"
    /\ "cities" \in DOMAIN f.doc
    /\ {f.doc.cities[i].key : i \in 1..Len(f.doc.cities)} = DictKeys(cfgs)
    /\ Len(f.doc.cities) = Len(cfgs)
    /\ \A i \in 1..Len(f.doc.cities) :
          LET n == f.doc.cities[i].value
              c == DictGet(cfgs, f.doc.cities[i].key)
          IN /\ HasAllFields(n)
             /\ n.city_id = c.city_id
             /\ n.display_name = c.display_name
             /\ NodeValue(n.demographics.typical_population_range)
                    = c.demographics.typical_population_range
    /\ GetCurrentCityField(f.doc) = cur

LoadOps == {"__init__", "load_configs"}

\* the last call handed its result to the caller
ReturnedNormally == ret.tag # "raise"

\* the step is a call of the named operation
Called(name) == op' = name

\* current_city is unset or names an entry
ValidCurrent(cfgs, cur) == cur = None \/ cur \in DictKeys(cfgs)

-----------------------------------------------------------------------------
(* C1 *)

\* C1: after load_configs() returns, whatever the backing file held,
\* list_cities() is non-empty and current_city is unset or a key of the mapping.
C1_LoadLeavesValidStore ==
    (op \in LoadOps /\ ReturnedNormally)
        => (Len(configs) > 0 /\ ValidCurrent(configs, current_city))

-----------------------------------------------------------------------------
(* C2 *)

\* C2: save_configs() followed by the construction of a fresh store over the
\* same file yields the same keys, the same field values for every city and
\* the same current_city, and does not seed the defaults.
C2_RoundTrip ==
    [][(op = "save_configs" /\ ReturnedNormally /\ Called("__init__"))
        => /\ ret'.tag # "raise"
           /\ ~seeded'
           /\ SameMapping(configs', configs)
           /\ current_city' = current_city]_vars

-----------------------------------------------------------------------------
(* C3 *)

\* C3: a store constructed with no backing file holds 3 cities, one of them
\* "grand_forks_nd"; and after set_current_city(id) returned True, a store
\* constructed afterwards over the same file has current_city = id.
C3_SelectionSurvivesRestart ==
    [][/\ (file.kind = "missing" /\ Called("__init__") /\ ret'.tag # "raise")
            => (Len(configs') = 3 /\ "grand_forks_nd" \in DictKeys(configs'))
       /\ (op = "set_current_city" /\ ret.tag = "True" /\ Called("__init__"))
            => (ret'.tag # "raise" /\ current_city' = arg)]_vars

-----------------------------------------------------------------------------
(* C4 *)

\* C4: a load that finds the backing file missing or unusable never raises and
\* ends with a non-empty store whose current_city is one of the seeded keys,
\* also when the seeded defaults cannot be written to the backing file.
C4_BootstrapTotal ==
    [][(Called("__init__") \/ Called("load_configs")) /\ seeded'
        => /\ ret'.tag # "raise"
           /\ Len(configs') > 0
           /\ current_city' \in DictKeys(DefaultConfigs)
           /\ current_city' \in DictKeys(configs')]_vars

-----------------------------------------------------------------------------
(* C5 *)

\* C5: set_current_city(city_id) with city_id not a key returns False and
\* leaves current_city, the mapping and the backing file unchanged; with
\* city_id a key it returns True, sets current_city and persists.
C5_SetCurrentGuard ==
    [][Called("set_current_city")
        => IF arg' \notin DictKeys(configs)
           THEN /\ ret'.tag = "False"
                /\ UNCHANGED <<current_city, configs, file>>
           ELSE /\ ret'.tag = "True"
                /\ current_city' = arg'
                /\ Denotes(file', configs', current_city')]_vars

\* C5 (amended): set_current_city(city_id) with city_id not a key returns
\* False and leaves current_city, the mapping and the backing file unchanged;
\* with city_id a key it sets current_city to city_id, leaves the mapping
\* alone and writes the file: it returns True with the store persisted when
\* the write succeeds, and raises when the write fails.
C5_SetCurrentGuardOrRaise ==
    [][Called("set_current_city")
        => IF arg' \notin DictKeys(configs)
           THEN /\ ret'.tag = "False"
                /\ UNCHANGED <<current_city, configs, file>>
           ELSE /\ current_city' = arg'
                /\ configs' = configs
                /\ \/ ret'.tag = "True" /\ Denotes(file', configs', current_city')
                   \/ ret'.tag = "raise" /\ io_failures' = io_failures + 1]_vars

\* a refused set_current_city on a store that has entries and a selection
C5_Witness ==
    /\ op = "set_current_city"
    /\ ret.tag = "False"
    /\ arg \notin DictKeys(configs)
    /\ Len(configs) > 0
    /\ current_city \in DictKeys(configs)

-----------------------------------------------------------------------------
(* C6 *)

\* C6: remove_city(id) of the current city from a store of at least 2 entries
\* leaves current_city on a key still present, never the removed id; removing
\* the last remaining entry leaves current_city unset; removing a city that is
\* not the current city leaves current_city unchanged.
C6_RemovalReassignment ==
    [][(Called("remove_city") /\ arg' \in DictKeys(configs))
        => /\ (current_city = arg' /\ Len(configs) >= 2)
                => (current_city' \in DictKeys(configs') /\ current_city' # arg')
           /\ Len(configs) = 1 => current_city' = None
           /\ current_city # arg' => current_city' = current_city]_vars

-----------------------------------------------------------------------------
(* C7 *)

AllWriteOutcomes == {"ok", "open_raises", "write_raises_empty", "write_raises_partial"}

\* C7: after add_city(config) the mapping holds exactly one entry under
\* config.city_id and it is config, also when an entry with other values was
\* there before; every other entry and current_city are as they were.
C7_AddIsUpsert ==
    [][Called("add_city") => \A c \in CustomConfigs :
        (\E w \in AllWriteOutcomes : add_city(c, w))
        => /\ Cardinality({i \in 1..Len(configs') : configs'[i].key = c.city_id}) = 1
           /\ DictGet(configs', c.city_id) = c
           /\ DictKeys(configs') = DictKeys(configs) \cup {c.city_id}
           /\ \A k \in DictKeys(configs) \ {c.city_id} :
                 DictGet(configs', k) = DictGet(configs, k)
           /\ current_city' = current_city]_vars

\* the second of two add_city calls for the id "": the entry it replaced is
\* one only an earlier add_city can have stored, and has other values
C7_Witness ==
    /\ op = "add_city"
    /\ arg = ""
    /\ prior.tag = "config"
    /\ prior.value.display_name = "Custom 2"
    /\ DictGet(configs, "").display_name = "Custom"
    /\ Len(configs) >= 2

-----------------------------------------------------------------------------
(* C8 *)

\* the last call was a mutation, or a default seeding, that completed
CompletedMutation ==
    \/ op \in {"set_current_city", "remove_city"} /\ ret.tag = "True"
    \/ op = "add_city" /\ ret.tag = "None"
    \/ op \in LoadOps /\ seeded /\ ReturnedNormally

\* C8: whenever set_current_city, add_city or remove_city has returned with
\* success, or default seeding has completed, the backing file stands for
\* exactly the in-memory store: same keys, same configurations, same
\* current_city.
C8_WriteThrough == CompletedMutation => Denotes(file, configs, current_city)

\* a removal that succeeded after an earlier write had failed
C8_Witness ==
    /\ op = "remove_city"
    /\ ret.tag = "True"
    /\ io_failures > 0
    /\ Len(configs) >= 2
    /\ Denotes(file, configs, current_city)

-----------------------------------------------------------------------------
(* C9 *)

SavingOps == {"save_configs", "set_current_city", "add_city", "remove_city"}

\* the step is a call of one of SavingOps in which the write failed
WriteFailed == op' \in SavingOps /\ io_failures' > io_failures

\* the in-memory store holds what the call was to change
HoldsMutation ==
    /\ Called("set_current_city") => current_city' = arg'
    /\ Called("add_city") =>
          (arg' \in DictKeys(configs') /\ DictGet(configs', arg') \in CustomConfigs)
    /\ Called("remove_city") => arg' \notin DictKeys(configs')

\* C9: a write failure in save_configs, set_current_city, add_city or
\* remove_city raises to the caller; the in-memory store then holds the
\* mutation and the backing file does not, so memory and disk differ.
C9_WriteFailureDiverges ==
    [][WriteFailed
        => /\ ret'.tag = "raise"
           /\ HoldsMutation
           /\ op' # "save_configs" => ~Denotes(file', configs', current_city')]_vars

\* C9 (amended): a write failure in save_configs, set_current_city, add_city
\* or remove_city raises to the caller; the in-memory store then holds the
\* mutation and the backing file has not been rewritten, so memory and disk
\* differ unless the untouched file already stood for the resulting store.
C9_WriteFailureRaises ==
    [][WriteFailed
        => /\ ret'.tag = "raise"
           /\ HoldsMutation
           /\ file' # file => file'.kind \in {"empty", "garbage"}
           /\ Denotes(file', configs', current_city')
                => (file' = file /\ Denotes(file, configs', current_city'))]_vars

\* an add_city that raised: the new entry is in memory only
C9_Witness ==
    /\ op = "add_city"
    /\ ret.tag = "raise"
    /\ arg \in DictKeys(configs)
    /\ file.kind = "yaml"
    /\ ~Denotes(file, configs, current_city)

-----------------------------------------------------------------------------
(* C10 *)

\* C10: get_current_config() returns the configuration stored under
\* current_city whenever current_city is set and a key of the mapping, the
\* empty string included, and None otherwise; right after set_current_city(id)
\* returned True it returns the configuration stored under id.
C10_GetCurrentConfig ==
    [][Called("get_current_config")
        => /\ ret' = IF current_city # None /\ current_city \in DictKeys(configs)
                     THEN RetConfig(DictGet(configs, current_city))
                     ELSE RetNone
           /\ (op = "set_current_city" /\ ret.tag = "True")
                => ret' = RetConfig(DictGet(configs, arg))]_vars

-----------------------------------------------------------------------------
(* C11 *)

\* the step is get_config or remove_city with an id that is no key: it
\* returns the absent result / False and changes neither the mapping, nor
\* current_city, nor the backing file
InvalidReferenceByValue ==
    ((Called("get_config") \/ Called("remove_city")) /\ arg' \notin DictKeys(configs))
        => /\ ret' = IF op' = "get_config" THEN RetNone ELSE RetFalse
           /\ UNCHANGED <<configs, current_city, file>>

\* C11: get_config(id) with an unknown id returns the absent result and
\* remove_city(id) with an unknown id returns False, in both cases with the
\* mapping, current_city and the backing file unchanged; remove_city(id) with
\* a known id returns True and id is no longer a key.
C11_InvalidReferences ==
    [][/\ InvalidReferenceByValue
       /\ (Called("remove_city") /\ arg' \in DictKeys(configs))
            => (ret' = RetTrue /\ arg' \notin DictKeys(configs'))]_vars

\* C11 (amended): as C11 for unknown ids; remove_city(id) with a known id
\* deletes the entry, so that id is no longer a key, and writes the file: it
\* returns True when the write succeeds and raises when the write fails.
C11_InvalidReferencesOrRaise ==
    [][/\ InvalidReferenceByValue
       /\ (Called("remove_city") /\ arg' \in DictKeys(configs))
            => /\ arg' \notin DictKeys(configs')
               /\ \/ ret' = RetTrue /\ io_failures' = io_failures
                  \/ ret' = Raised /\ io_failures' = io_failures + 1]_vars

\* get_config of an id that is no key, on a store that has entries
C11_Witness ==
    /\ op = "get_config"
    /\ arg \notin DictKeys(configs)
    /\ ret = RetNone
    /\ Len(configs) >= 2

-----------------------------------------------------------------------------
(* C12 *)

\* the backing file f can be read and deserialized into a store
Usable(f) ==
    /\ f.kind = "yaml"
    /\ "cities" \in DOMAIN f.doc
    /\ ~HasPythonTag(f.doc)
    /\ \A i \in 1..Len(f.doc.cities) : HasAllFields(f.doc.cities[i].value)

\* the step is a load: it seeds exactly when the file is not usable, a seeding
\* leaves exactly the three default keys and current_city grand_forks_nd (in
\* the store there is: a constructor that raises leaves none), and a load
\* that does not seed does not write the file
SeedsOnlyWithoutData ==
    /\ seeded' <=> ~Usable(file)
    /\ (seeded' /\ (Called("load_configs") \/ ret' # Raised))
               => /\ DictKeys(configs') = {"grand_forks_nd", "fargo_nd", "bismarck_nd"}
                  /\ Len(configs') = 3
                  /\ current_city' = "grand_forks_nd"
    /\ ~seeded' => (~wrote' /\ file' = file /\ ret' = RetNone)

-----------------------------------------------------------------------------
(* C13 *)

\* the step left the in-memory store alone and did not write the backing file
NoSideEffect == ~wrote' /\ UNCHANGED <<configs, current_city, file>>

\* C13: of set_current_city, add_city and remove_city, only set_current_city
\* has inputs for which it returns without changing the in-memory store or
\* writing the backing file: every add_city and every remove_city call
\* changes the store or writes the file.
C13_OnlySetCurrentChecks ==
    [][(Called("add_city") \/ Called("remove_city")) => ~NoSideEffect]_vars

\* C13 (amended): set_current_city and remove_city both test their id before
\* any side effect: with an id that is no key they return False without
\* changing the store or writing the file, with a key they write the file;
\* add_city has no such input, every add_city call writes the file.
C13_AddIsTheOnlyUnchecked ==
    [][/\ (Called("set_current_city") \/ Called("remove_city"))
            => IF arg' \in DictKeys(configs)
               THEN wrote'
               ELSE NoSideEffect /\ ret' = RetFalse
       /\ Called("add_city") => wrote']_vars

\* a remove_city that was refused on a store that has entries
C13_Witness ==
    /\ op = "remove_city"
    /\ ret = RetFalse
    /\ ~wrote
    /\ arg \notin DictKeys(configs)
    /\ Len(configs) > 0

-----------------------------------------------------------------------------
(* C14 *)

\* how many integers i >= 0 have min + i*s < max, in exact arithmetic
ExactCount(min, max, s) == IF max > min THEN -((-(max - min)) \div s) ELSE 0

\* x is min + i*s up to the rounding of floating-point arithmetic: nearer to
\* it than to any other value of the grid
IsGridValue(x, min, i, s) == 2 * Abs(x - (min + i * s)) < s

\* the bounds of the example: 0 to 0.02 on both axes, spacing 0.01
ExampleBounds ==
    CityBounds(<<Float(0, 1), Float(2, 100)>>, <<Float(0, 1), Float(2, 100)>>,
               Float(1, 100))

\* C14: get_grid_points() returns exactly the pairs
\* (min_lat + i*s, min_lon + j*s) for all integers i, j >= 0 with
\* min_lat + i*s < max_lat and min_lon + j*s < max_lon, the upper bounds
\* excluded, in latitude-major then longitude order and without duplicates;
\* for 0 to 0.02 on both axes and s = 0.01 these are (0,0), (0,0.01),
\* (0.01,0), (0.01,0.01); a second call returns the same sequence.
C14_GridPoints ==
    grid_calls > 0 =>
        LET b == city_bounds
            s == b.grid_spacing
            nlat == ExactCount(b.min_lat, b.max_lat, s)
            nlon == ExactCount(b.min_lon, b.max_lon, s)
        IN /\ Len(grid_points) = nlat * nlon
           /\ \A n \in 1..Len(grid_points) :
                 /\ IsGridValue(grid_points[n][1], b.min_lat, (n - 1) \div nlon, s)
                 /\ IsGridValue(grid_points[n][2], b.min_lon, (n - 1) % nlon, s)
                 /\ grid_points[n][1] < b.max_lat
                 /\ grid_points[n][2] < b.max_lon
           /\ \A n \in 1..(Len(grid_points) - 1) :
                 \/ grid_points[n][1] < grid_points[n + 1][1]
                 \/ /\ grid_points[n][1] = grid_points[n + 1][1]
                    /\ grid_points[n][2] < grid_points[n + 1][2]
           /\ b = ExampleBounds =>
                 grid_points = <<<<0, 0>>, <<0, Float(1, 100)>>,
                                 <<Float(1, 100), 0>>, <<Float(1, 100), Float(1, 100)>>>>
           /\ grid_calls > 1 => grid_previous = grid_points

-----------------------------------------------------------------------------
(* C15 *)

ReadOps == {"get_config", "list_cities", "get_current_config"}

\* C15: list_cities() returns exactly the set of keys of the mapping (each
\* once), get_config(id) returns the entry stored under id when id is a key,
\* and get_config, list_cities and get_current_config never change the
\* mapping, current_city or the backing file.
C15_ReadsArePure ==
    [][/\ Called("list_cities")
            => /\ ret'.tag = "list"
               /\ {ret'.value[i] : i \in 1..Len(ret'.value)} = DictKeys(configs)
               /\ Len(ret'.value) = Cardinality(DictKeys(configs))
       /\ (Called("get_config") /\ arg' \in DictKeys(configs))
            => ret' = RetConfig(DictGet(configs, arg'))
       /\ op' \in ReadOps
            => (~wrote' /\ UNCHANGED <<configs, current_city, file, io_failures>>)]_vars

\* list_cities() on a store to which add_city has added a fourth city
C15_Witness ==
    /\ op = "list_cities"
    /\ ret.tag = "list"
    /\ Len(ret.value) = 4
    /\ \E i \in 1..4 : ret.value[i] = ""

-----------------------------------------------------------------------------
(* C16 *)

\* the two stores hold the same mapping contents and the same current_city
SameStores(cfgs, cur, tcfgs, tcur) == SameMapping(cfgs, tcfgs) /\ cur = tcur

\* two results are the same; lists of ids are compared as sets, list_cities
\* promising no order
SameResult(r, t) ==
    /\ r.tag = t.tag
    /\ IF r.tag = "list"
       THEN {r.value[i] : i \in 1..Len(r.value)} = {t.value[i] : i \in 1..Len(t.value)}
       ELSE r.value = t.value

\* the step is one call made on both stores, which held the same contents
JointCallOnSameStores ==
    /\ twin_op' = "both"
    /\ SameStores(configs, current_city, twin_configs, twin_current)

\* C16: two stores that hold the same mapping contents and the same
\* current_city, but were filled in different orders, give the same result
\* and reach the same (mapping, current_city) state under every operation,
\* remove_city of the current city included.
C16_OrderNotObservable ==
    [][JointCallOnSameStores
        => /\ SameResult(ret', twin_ret')
           /\ SameStores(configs', current_city', twin_configs', twin_current')]_vars

\* C16 (amended): such stores give the same result and reach the same mapping
\* under every operation, and the same current_city under every operation
\* but a successful remove_city of the current city: that leaves each store
\* with the first of its own remaining keys in insertion order (unset when
\* none remains), which need not be the same key.
C16_OrderShowsInReassignment ==
    [][JointCallOnSameStores
        => /\ SameResult(ret', twin_ret')
           /\ SameMapping(configs', twin_configs')
           /\ IF op' = "remove_city" /\ arg' = current_city /\ ret' = RetTrue
              THEN /\ current_city' = FirstKey(configs')
                   /\ twin_current' = FirstKey(twin_configs')
              ELSE current_city' = twin_current']_vars

\* remove_city of the current city on two stores of the same contents whose
\* keys are in different orders
C16_Witness ==
    /\ twin_op = "both"
    /\ op = "remove_city"
    /\ ret = RetTrue
    /\ SameMapping(configs, twin_configs)
    /\ Len(configs) >= 2
    /\ KeyList(configs) # KeyList(twin_configs)
    /\ arg = DefaultCurrent
    /\ current_city # twin_current

-----------------------------------------------------------------------------
(* C17 *)

MutatingOps == {"set_current_city", "add_city", "remove_city"}

\* C17: if current_city is unset or a key of the mapping before
\* set_current_city, add_city or remove_city, whatever the argument, it is
\* unset or a key of the mapping after it; a default seeding leaves
\* current_city on a key; hence no sequence of these operations on the
\* seeded defaults leaves current_city dangling.
C17_MutationsKeepCurrentValid ==
    [][/\ (op' \in MutatingOps /\ ValidCurrent(configs, current_city))
            => ValidCurrent(configs', current_city')
       /\ (op' \in LoadOps /\ seeded' /\ ret' # Raised)
            => current_city' \in DictKeys(configs')]_vars

\* a remove_city of the current city whose write failed: the file still
\* names the removed city as current, the store has moved on to a key
C17_Witness ==
    /\ op = "remove_city"
    /\ ret = Raised
    /\ file.kind = "yaml"
    /\ GetCurrentCityField(file.doc) = arg
    /\ arg \notin DictKeys(configs)
    /\ current_city \in DictKeys(configs)

-----------------------------------------------------------------------------
(* C18 *)

\* C18: in every reachable state of the store (after construction from any
\* parsable file, default seeding, and any sequence of add_city, remove_city
\* and set_current_city) every entry is filed under its own identifier: the
\* configuration stored under a key k has city_id = k.
C18_KeyConsistency ==
    constructed => \A i \in 1..Len(configs) : configs[i].value.city_id = configs[i].key

-----------------------------------------------------------------------------
(* C19 *)

\* C19: after load_configs() has read a well-formed file, the mapping holds
\* exactly the cities of the file and current_city is the file's current_city
\* (unset if the file has none), also when the store held entries that are
\* not in the file.
C19_LoadMirrorsFile ==
    [][((Called("__init__") \/ Called("load_configs")) /\ ~seeded' /\ ret' # Raised)
        => Denotes(file, configs', current_city')]_vars

-----------------------------------------------------------------------------
(* C20 *)

\* C20: under any interleaving of the concurrent callbacks' load_city_data
\* calls on the shared loader, with different city ids, every call
\* load_city_data(c) returns either no data or the dataset of city c: no call
\* gets the data of one city for the id of another.
C20_CacheReturnsRequestedCity ==
    \A t \in DOMAIN threads :
        (threads[t].calls > 0 /\ threads[t].pc = "idle")
            => \/ threads[t].returned = NoData
               \/ threads[t].returned = Dataset(threads[t].city_id)

====
